---- MODULE Spec2Model ----
(***************************************************************************)
(* temp-deleter-go: the concurrent directory-cleaning engine               *)
(* (internal/cleaner/cleaner.go) and the confirmation flow of the command  *)
(* line program (cmd/temp-deleter/main.go), as a state machine.            *)
(*                                                                         *)
(* A file name is a sequence of one-character strings, a path a sequence   *)
(* of names.  The filesystem is a function from the existing paths to      *)
(* their entries.  The workers of CleanDirectories take one step per       *)
(* filesystem or channel operation; what a worker does to its own partial  *)
(* result between two such operations is part of the step.                 *)
(*                                                                         *)
(* A byte count (int64) is the sequence of its base-1024 digits, lowest    *)
(* first, without leading zeros: the integers of the model checker are     *)
(* narrower than 64 bits.                                                  *)
(***************************************************************************)
EXTENDS Integers, Sequences, FiniteSets, TLC

\* Bounds of the model.
MaxCPU == 2
MaxTargets == 2
MaxNumCPU == 10

\* The base-1024 digits of the largest int64 (2^63 - 1 = 7 * 1024^6 + ...).
MaxDigits == 7

VARIABLES
    goos,        \* runtime.GOOS
    numCPU,      \* runtime.NumCPU()
    bytes,       \* the argument of FormatSize
    formatted,   \* the string FormatSize returned ("" before the call)
    dryRun,      \* Cleaner.dryRun
    maxWorkers,  \* Cleaner.maxWorkers
    directories, \* the argument of CleanDirectories
    fs0,         \* the filesystem when the run starts
    fs,          \* the filesystem now
    mainpc,      \* position of main ("lib": CleanDirectories called directly)
    response,    \* main: the line read from standard input
    dpc,         \* position of CleanDirectories (the dispatcher)
    loaded,      \* dispatcher: number of targets sent on workChan
    workChan,    \* buffered channel of targets (positions of directories)
    workClosed,  \* close(workChan) has happened
    resultChan,  \* buffered channel of partial results
    resultClosed,\* number of times close(resultChan) has happened
    wg,          \* sync.WaitGroup counter
    closer,      \* position of the goroutine that waits and closes resultChan
    workers,     \* the worker goroutines
    result,      \* the aggregate result of CleanDirectories
    taken,       \* history: per list position, times received from workChan
    cleaned,     \* history: per list position, calls of cleanDirectory
    merged,      \* history: per list position, calls of mergeResults
    deleteCalls, \* history: number of calls of deleteItem
    lateSend     \* history: a send on resultChan after it was closed

vars == <<goos, numCPU, bytes, formatted, dryRun, maxWorkers, directories, fs0, fs, mainpc, response,
          dpc, loaded, workChan, workClosed, resultChan, resultClosed, wg,
          closer, workers, result, taken, cleaned, merged, deleteCalls,
          lateSend>>

----------------------------------------------------------------------------
\* Names and paths.

Dot == "."

\* Byte value of the characters that occur in the names of the model.
CharCode(c) ==
    CASE c = "." -> 46
      [] c = "T" -> 84
      [] c = "a" -> 97
      [] c = "b" -> 98
      [] c = "d" -> 100
      [] c = "e" -> 101
      [] c = "f" -> 102
      [] c = "g" -> 103
      [] c = "h" -> 104
      [] c = "i" -> 105
      [] c = "k" -> 107
      [] c = "m" -> 109
      [] c = "n" -> 110
      [] c = "o" -> 111
      [] c = "p" -> 112
      [] c = "s" -> 115
      [] c = "t" -> 116
      [] c = "u" -> 117
      [] c = "x" -> 120

\* Go's string comparison: bytewise, a proper prefix first.
RECURSIVE NameLess(_, _)
NameLess(a, b) ==
    IF a = <<>> THEN b # <<>>
    ELSE IF b = <<>> THEN FALSE
    ELSE IF Head(a) # Head(b) THEN CharCode(Head(a)) < CharCode(Head(b))
    ELSE NameLess(Tail(a), Tail(b))

\* sort.Strings of a set of names.
RECURSIVE SortNames(_)
SortNames(S) ==
    IF S = {} THEN <<>>
    ELSE LET m == CHOOSE n \in S : \A o \in S \ {n} : NameLess(n, o)
         IN  <<m>> \o SortNames(S \ {m})

\* filepath.Base of a path.
Base(path) == path[Len(path)]

IsPrefix(p, q) == Len(p) <= Len(q) /\ SubSeq(q, 1, Len(p)) = p

\* The entries of f directly inside directory p.
Children(f, p) == {q \in DOMAIN f : Len(q) = Len(p) + 1 /\ IsPrefix(p, q)}

\* p and everything below it.
Subtree(f, p) == {q \in DOMAIN f : IsPrefix(p, q)}

\* f without the paths of S.
Without(f, S) == [q \in (DOMAIN f) \ S |-> f[q]]

DesktopIni == <<"d", "e", "s", "k", "t", "o", "p", ".", "i", "n", "i">>
ThumbsDbLower == <<"t", "h", "u", "m", "b", "s", ".", "d", "b">>
ThumbsDbUpper == <<"T", "h", "u", "m", "b", "s", ".", "d", "b">>

----------------------------------------------------------------------------
\* CleanupResult (ProcessingTime left out).

EmptyResult ==
    [TotalFiles |-> 0, TotalDirs |-> 0, TotalSize |-> 0,
     DeletedFiles |-> 0, DeletedDirs |-> 0, DeletedSize |-> 0,
     FailedFiles |-> 0, FailedDirs |-> 0,
     SkippedFiles |-> 0, SkippedDirs |-> 0,
     ErrorMessages |-> <<>>]

Counters ==
    {"TotalFiles", "TotalDirs", "TotalSize", "DeletedFiles", "DeletedDirs",
     "DeletedSize", "FailedFiles", "FailedDirs", "SkippedFiles", "SkippedDirs"}

\* The numeric counters of a result.
Numeric(r) == [c \in Counters |-> r[c]]

\* mergeResults with the line that adds DeletedSize left out.
mergeResultsForgetsSize(target, source) ==
    [TotalFiles |-> target.TotalFiles + source.TotalFiles,
     TotalDirs |-> target.TotalDirs + source.TotalDirs,
     TotalSize |-> target.TotalSize + source.TotalSize,
     DeletedFiles |-> target.DeletedFiles + source.DeletedFiles,
     DeletedDirs |-> target.DeletedDirs + source.DeletedDirs,
     DeletedSize |-> target.DeletedSize,
     FailedFiles |-> target.FailedFiles + source.FailedFiles,
     FailedDirs |-> target.FailedDirs + source.FailedDirs,
     SkippedFiles |-> target.SkippedFiles + source.SkippedFiles,
     SkippedDirs |-> target.SkippedDirs + source.SkippedDirs,
     ErrorMessages |-> target.ErrorMessages \o source.ErrorMessages]

\* mergeResults(target, source)
mergeResults(target, source) ==
    [TotalFiles |-> target.TotalFiles + source.TotalFiles,
     TotalDirs |-> target.TotalDirs + source.TotalDirs,
     TotalSize |-> target.TotalSize + source.TotalSize,
     DeletedFiles |-> target.DeletedFiles + source.DeletedFiles,
     DeletedDirs |-> target.DeletedDirs + source.DeletedDirs,
     DeletedSize |-> target.DeletedSize + source.DeletedSize,
     FailedFiles |-> target.FailedFiles + source.FailedFiles,
     FailedDirs |-> target.FailedDirs + source.FailedDirs,
     SkippedFiles |-> target.SkippedFiles + source.SkippedFiles,
     SkippedDirs |-> target.SkippedDirs + source.SkippedDirs,
     ErrorMessages |-> target.ErrorMessages \o source.ErrorMessages]

----------------------------------------------------------------------------
\* The filesystem.  An entry: isDir, size (files), probe (what opening the
\* file for writing does: "ok", "openfails", "closefails"), undeletable
\* (removing the entry fails), unreadable (listing the directory fails).

FileEntry(size, probe, undeletable) ==
    [isDir |-> FALSE, size |-> size, probe |-> probe,
     undeletable |-> undeletable, unreadable |-> FALSE]

DirEntry(unreadable) ==
    [isDir |-> TRUE, size |-> 0, probe |-> "ok",
     undeletable |-> FALSE, unreadable |-> unreadable]

\* os.FileInfo as returned by Lstat; NilInfo is the nil FileInfo.
NilInfo == [nil |-> TRUE, isDir |-> FALSE, size |-> 0]
InfoOf(e) == [nil |-> FALSE, isDir |-> e.isDir, size |-> e.size]

\* os.Stat / os.Lstat succeed on the existing paths.
Exists(f, path) == path \in DOMAIN f

\* readDirNames that lists a directory whatever its permissions.
ReadDirIgnoresPermission(f, path) ==
    \/ ~Exists(f, path)
    \/ ~f[path].isDir

\* readDirNames(path) of filepath.Walk: the error, and the sorted names.
ReadDirFails(f, path) ==
    \/ ~Exists(f, path)
    \/ ~f[path].isDir
    \/ f[path].unreadable

\* A walk that does not list the directories whose name starts with '.'.
readDirNamesSkipsHidden(f, path) ==
    IF Base(path)[1] = Dot THEN <<>>
    ELSE SortNames({Base(q) : q \in Children(f, path)})

readDirNames(f, path) == SortNames({Base(q) : q \in Children(f, path)})

\* os.OpenFile(path, flags, 0): the error, and the filesystem it leaves
\* (O_CREATE makes a missing file, O_TRUNC empties an existing one).
OpenFails(f, path) ==
    \/ ~Exists(f, path)
    \/ f[path].isDir
    \/ f[path].probe = "openfails"

OpenFile(f, path, flags) ==
    IF Exists(f, path)
    THEN IF ~OpenFails(f, path) /\ "O_TRUNC" \in flags
         THEN [f EXCEPT ![path].size = 0]
         ELSE f
    ELSE IF "O_CREATE" \in flags /\ Len(path) > 1
              /\ Exists(f, SubSeq(path, 1, Len(path) - 1))
         THEN [q \in DOMAIN f \cup {path} |->
                  IF q = path THEN FileEntry(0, "ok", FALSE) ELSE f[q]]
         ELSE f

\* file.Close() of the opened file: the error.
CloseFails(f, path) == f[path].probe = "closefails"

\* os.Remove(path) of a file: the error.
RemoveFails(f, path) == ~Exists(f, path) \/ f[path].undeletable

\* What os.RemoveAll(path) leaves of path and the entries below it: it
\* removes what it can and goes on after an error.
RECURSIVE Survivors(_, _)
Survivors(f, p) ==
    IF ~Exists(f, p) THEN {}
    ELSE IF ~f[p].isDir THEN (IF f[p].undeletable THEN {p} ELSE {})
    ELSE IF f[p].unreadable /\ Children(f, p) # {} THEN Subtree(f, p)
    ELSE LET below == UNION {Survivors(f, c) : c \in Children(f, p)}
         IN  IF below = {} /\ ~f[p].undeletable THEN {} ELSE below \cup {p}

RemoveAll(f, path) == Without(f, Subtree(f, path) \ Survivors(f, path))
RemoveAllFails(f, path) == Survivors(f, path) # {}

Remove(f, path) == IF RemoveFails(f, path) THEN f ELSE Without(f, {path})

----------------------------------------------------------------------------
\* shouldDelete, deleteItem and the callback of filepath.Walk.

IsWindows == goos = "windows"

\* Rule 1: hidden files and directories on Unix-like systems.
HiddenRule(path) == ~IsWindows /\ Base(path)[1] = Dot

\* Rule 2 without the name "Thumbs.db".
SystemFileRuleLowerOnly(path) ==
    IsWindows /\ Base(path) \in {DesktopIni, ThumbsDbLower}

\* Rule 2: critical Windows system files.
SystemFileRule(path) ==
    IsWindows /\ Base(path) \in {DesktopIni, ThumbsDbLower, ThumbsDbUpper}

\* Rule 3: the file-in-use check, for files only.
InUseRule(f, path, info) ==
    ~info.isDir /\ (OpenFails(f, path) \/ CloseFails(f, path))

\* The flags shouldDelete opens a file with (line 212).
ProbeFlags == {"O_WRONLY"}

\* The filesystem after shouldDelete(path, info).
Probed(f, path, info) ==
    IF HiddenRule(path) \/ SystemFileRule(path) \/ info.isDir THEN f
    ELSE OpenFile(f, path, ProbeFlags)

shouldDelete(f, path, info) ==
    IF HiddenRule(path) THEN FALSE
    ELSE IF SystemFileRule(path) THEN FALSE
    ELSE IF InUseRule(f, path, info) THEN FALSE
    ELSE TRUE

\* deleteItem(path, info): the filesystem it leaves, and whether it fails.
deleteItem(f, path, info) ==
    IF info.isDir THEN RemoveAll(f, path) ELSE Remove(f, path)

deleteItemFails(f, path, info) ==
    IF info.isDir THEN RemoveAllFails(f, path) ELSE RemoveFails(f, path)

Add(res, counter, n) == [res EXCEPT ![counter] = @ + n]

Message(kind, path) == <<kind, path>>

AddMessage(res, kind, path) ==
    [res EXCEPT !.ErrorMessages = Append(@, Message(kind, path))]

\* The callback's err != nil branch without the append of lines 128-129.
WalkErrorSilent(res, path, info) ==
    IF ~info.nil /\ info.isDir
    THEN Add(res, "FailedDirs", 1)
    ELSE Add(res, "FailedFiles", 1)

\* The callback called with err != nil (lines 121-131); it returns SkipDir.
WalkError(res, path, info) ==
    AddMessage(IF ~info.nil /\ info.isDir
               THEN Add(res, "FailedDirs", 1)
               ELSE Add(res, "FailedFiles", 1),
               "Walk error", path)

\* Lines 138-143.
CountTotal(res, info) ==
    IF info.isDir THEN Add(res, "TotalDirs", 1)
    ELSE Add(Add(res, "TotalFiles", 1), "TotalSize", info.size)

\* Lines 148-153 and 166-171.
CountDeleted(res, info) ==
    IF info.isDir THEN Add(res, "DeletedDirs", 1)
    ELSE Add(Add(res, "DeletedFiles", 1), "DeletedSize", info.size)

\* Lines 157-163.
CountFailed(res, path, info) ==
    AddMessage(IF info.isDir THEN Add(res, "FailedDirs", 1)
               ELSE Add(res, "FailedFiles", 1),
               "Delete error", path)

\* Lines 176-180.
CountSkipped(res, info) ==
    IF info.isDir THEN Add(res, "SkippedDirs", 1)
    ELSE Add(res, "SkippedFiles", 1)

----------------------------------------------------------------------------
\* filepath.Walk as run by one worker: a stack of the directories being
\* listed, each with the names still to visit.

Frame(dir, names) == [dir |-> dir, names |-> names]

\* Directories whose names are all visited are left.
RECURSIVE Unwind(_)
Unwind(stack) ==
    IF stack = <<>> THEN <<>>
    ELSE IF stack[Len(stack)].names = <<>>
         THEN Unwind(SubSeq(stack, 1, Len(stack) - 1))
         ELSE stack

\* log: the calls of the logger made by the worker's current call of
\* cleanDirectory; opened: the paths it has called os.OpenFile on.
OffWorker ==
    [pc |-> "off", idx |-> 0, dir |-> <<>>, res |-> EmptyResult,
     stack |-> <<>>, cur |-> <<>>, info |-> NilInfo, log |-> <<>>,
     opened |-> {}]

\* A call of the logger: the method, and the path it is given (for Infof
\* the path of the "DRY RUN: Would delete" message).
LogCall(method, path) == [method |-> method, path |-> path]

Logged(wk, method, path) ==
    [wk EXCEPT !.log = Append(@, LogCall(method, path))]

ReadyWorker == [OffWorker EXCEPT !.pc = "recv"]

\* The worker after the callback returned for the current entry: the walk
\* goes on with the next name, or filepath.Walk returns nil and
\* cleanDirectory returns the result (lines 186-192).
Continue(wk, res, stack) ==
    LET st == Unwind(stack)
    IN  [wk EXCEPT !.res = res, !.stack = st, !.cur = <<>>, !.info = NilInfo,
                   !.pc = IF st = <<>> THEN "send" ELSE "walk"]

\* Line 130 returning the error the callback was given.
WalkErrorReturnsErr == "err"

\* What the callback returns from its err != nil branch (line 130).
WalkErrorReturn == "SkipDir"

\* The worker after the callback returned from its err != nil branch.
\* filepath.Walk absorbs SkipDir (for the root, for a directory that could
\* not be listed, for a name whose lstat failed) and goes on; any other
\* error ends the walk, Walk returns it, and lines 186-190 log it and append
\* the "Directory walk error" message.
AfterError(wk, res, stack) ==
    IF WalkErrorReturn = "SkipDir" THEN Continue(wk, res, stack)
    ELSE [Logged(wk, "LogError", wk.dir) EXCEPT
             !.res = AddMessage(res, "Directory walk error", wk.dir),
             !.stack = <<>>, !.cur = <<>>, !.info = NilInfo, !.pc = "send"]

\* shouldDelete reaches os.OpenFile (line 212) for a file that rules 1 and 2
\* let pass.
Opens(path, info) ==
    ~HiddenRule(path) /\ ~SystemFileRule(path) /\ ~info.isDir

\* The worker after the logger call of the callback's branch for an entry
\* with err = nil (lines 147 and 175; the calls of lines 156 and 165 follow
\* deleteItem), and after the open of shouldDelete.
Noted(wk, f, path, info) ==
    LET probed == IF Opens(path, info)
                  THEN [wk EXCEPT !.opened = @ \cup {path}]
                  ELSE wk
    IN  IF shouldDelete(f, path, info)
        THEN IF dryRun THEN Logged(probed, "Infof", path) ELSE probed
        ELSE Logged(probed, "LogSkipped", path)

\* The callback with err = nil from line 138 on, dry run or ineligible
\* entry: the result it leaves.  An eligible entry of a real run goes on to
\* deleteItem in a step of its own.
ClassifiedAs(dry, res, f, path, info) ==
    IF shouldDelete(f, path, info)
    THEN IF dry THEN CountDeleted(CountTotal(res, info), info)
         ELSE CountTotal(res, info)
    ELSE CountSkipped(CountTotal(res, info), info)

\* The callback with the counting of lines 138-143 moved into the branch of
\* the skipped entries.
ClassifiedTotalsMisplaced(res, f, path, info) ==
    IF shouldDelete(f, path, info)
    THEN IF dryRun THEN CountDeleted(res, info) ELSE res
    ELSE CountSkipped(CountTotal(res, info), info)

Classified(res, f, path, info) == ClassifiedAs(dryRun, res, f, path, info)

\* Line 146 without the test of dryRun.
GoesToDeleteAlways(f, path, info) == shouldDelete(f, path, info)

\* Line 146: an eligible entry is deleted unless the run is a dry run.
GoesToDelete(f, path, info) == shouldDelete(f, path, info) /\ ~dryRun

Workers == 1..maxWorkers

\* Line 74 and line 75: the capacities of workChan and resultChan.
WorkCap(dirs) == Len(dirs)
ResultCap(dirs) == Len(dirs)

----------------------------------------------------------------------------
\* The worker goroutines (lines 80-86) and cleanDirectory (lines 109-193).

SetWorker(w, wk) == workers' = [workers EXCEPT ![w] = wk]

Bump(h, i) == [h EXCEPT ![i] = @ + 1]

\* for dir := range workChan: a target is received.
WorkerReceive(w) ==
    /\ workers[w].pc = "recv"
    /\ workChan # <<>>
    /\ LET i == Head(workChan)
       IN  /\ SetWorker(w, [workers[w] EXCEPT !.pc = "stat", !.idx = i,
                                              !.dir = directories[i]])
           /\ taken' = Bump(taken, i)
    /\ workChan' = Tail(workChan)
    /\ UNCHANGED <<goos, numCPU, bytes, formatted, dryRun, maxWorkers, directories, fs0, fs, mainpc,
                   response, dpc, loaded, workClosed, resultChan,
                   resultClosed, wg, closer, result, cleaned, merged,
                   deleteCalls, lateSend>>

\* The range loop ends on the closed, empty channel; defer wg.Done().
WorkerExit(w) ==
    /\ workers[w].pc = "recv"
    /\ workChan = <<>>
    /\ workClosed
    /\ SetWorker(w, [workers[w] EXCEPT !.pc = "exit"])
    /\ wg' = wg - 1
    /\ UNCHANGED <<goos, numCPU, bytes, formatted, dryRun, maxWorkers, directories, fs0, fs, mainpc,
                   response, dpc, loaded, workChan, workClosed, resultChan,
                   resultClosed, closer, result, taken, cleaned, merged,
                   deleteCalls, lateSend>>

\* cleanDirectory without the early return of lines 112-116.
WorkerStatWalksMissing(w) ==
    /\ workers[w].pc = "stat"
    /\ SetWorker(w, [workers[w] EXCEPT !.pc = "lstat"])
    /\ cleaned' = Bump(cleaned, workers[w].idx)
    /\ UNCHANGED <<goos, numCPU, bytes, formatted, dryRun, maxWorkers, directories, fs0, fs, mainpc,
                   response, dpc, loaded, workChan, workClosed, resultChan,
                   resultClosed, wg, closer, result, taken, merged,
                   deleteCalls, lateSend>>

\* cleanDirectory, lines 110-118: os.Stat(dirPath).
WorkerStat(w) ==
    /\ workers[w].pc = "stat"
    /\ LET wk == workers[w]
       IN  IF ~Exists(fs, wk.dir)
           THEN SetWorker(w, [Logged(wk, "LogSkipped", wk.dir) EXCEPT
                                 !.res = Add(@, "SkippedDirs", 1),
                                 !.pc = "send"])
           ELSE SetWorker(w, [Logged(wk, "LogDirectoryProcessing", wk.dir)
                                 EXCEPT !.pc = "lstat"])
    /\ cleaned' = Bump(cleaned, workers[w].idx)
    /\ UNCHANGED <<goos, numCPU, bytes, formatted, dryRun, maxWorkers, directories, fs0, fs, mainpc,
                   response, dpc, loaded, workChan, workClosed, resultChan,
                   resultClosed, wg, closer, result, taken, merged,
                   deleteCalls, lateSend>>

\* filepath.Walk(dirPath, ...): os.Lstat(root).  On an error the callback
\* is called with a nil FileInfo and its SkipDir makes Walk return nil.
WorkerLstatRoot(w) ==
    /\ workers[w].pc = "lstat"
    /\ LET wk == workers[w]
       IN  IF ~Exists(fs, wk.dir)
           THEN SetWorker(w, AfterError(Logged(wk, "LogError", wk.dir),
                                        WalkError(wk.res, wk.dir, NilInfo),
                                        <<>>))
           ELSE SetWorker(w, [wk EXCEPT !.pc = "visit", !.cur = wk.dir,
                                        !.info = InfoOf(fs[wk.dir])])
    /\ UNCHANGED <<goos, numCPU, bytes, formatted, dryRun, maxWorkers, directories, fs0, fs, mainpc,
                   response, dpc, loaded, workChan, workClosed, resultChan,
                   resultClosed, wg, closer, result, taken, cleaned, merged,
                   deleteCalls, lateSend>>

\* walk(path, info): a file gets the callback; a directory is listed
\* (readDirNames) and then gets the callback, with the listing's error.
\* The callback returns nil for the root (line 134), counts the entry and
\* asks shouldDelete.
WorkerVisit(w) ==
    /\ workers[w].pc = "visit"
    /\ LET wk == workers[w]
           path == wk.cur
           info == wk.info
           isRoot == path = wk.dir
           names == readDirNames(fs, path)
           stack == IF info.isDir
                    THEN Append(wk.stack, Frame(path, names))
                    ELSE wk.stack
       IN  IF info.isDir /\ ReadDirFails(fs, path)
           THEN /\ SetWorker(w, AfterError(Logged(wk, "LogError", path),
                                           WalkError(wk.res, path, info),
                                           wk.stack))
                /\ fs' = fs
           ELSE IF isRoot
           THEN /\ SetWorker(w, Continue(wk, wk.res, stack))
                /\ fs' = fs
           ELSE IF GoesToDelete(fs, path, info)
           THEN /\ SetWorker(w, [Noted(wk, fs, path, info) EXCEPT
                                     !.res = Classified(@, fs, path, info),
                                     !.stack = stack, !.pc = "delete"])
                /\ fs' = Probed(fs, path, info)
           ELSE /\ SetWorker(w, Continue(Noted(wk, fs, path, info),
                                         Classified(wk.res, fs, path, info),
                                         stack))
                /\ fs' = Probed(fs, path, info)
    /\ UNCHANGED <<goos, numCPU, bytes, formatted, dryRun, maxWorkers, directories, fs0, mainpc,
                   response, dpc, loaded, workChan, workClosed, resultChan,
                   resultClosed, wg, closer, result, taken, cleaned, merged,
                   deleteCalls, lateSend>>

\* Lines 155-172: deleteItem(path, info) and the counting of its outcome.
WorkerDelete(w) ==
    /\ workers[w].pc = "delete"
    /\ LET wk == workers[w]
       IN  /\ fs' = deleteItem(fs, wk.cur, wk.info)
           /\ SetWorker(w, Continue(
                  IF deleteItemFails(fs, wk.cur, wk.info)
                  THEN Logged(wk, "LogError", wk.cur)
                  ELSE Logged(wk, "LogDeletion", wk.cur),
                  IF deleteItemFails(fs, wk.cur, wk.info)
                  THEN CountFailed(wk.res, wk.cur, wk.info)
                  ELSE CountDeleted(wk.res, wk.info),
                  wk.stack))
    /\ deleteCalls' = deleteCalls + 1
    /\ UNCHANGED <<goos, numCPU, bytes, formatted, dryRun, maxWorkers, directories, fs0, mainpc,
                   response, dpc, loaded, workChan, workClosed, resultChan,
                   resultClosed, wg, closer, result, taken, cleaned, merged,
                   lateSend>>

\* The loop of walk over the names of a directory: lstat of the next name.
\* On an error the callback is called with a nil FileInfo; its SkipDir is
\* ignored and the loop goes on.
WorkerNext(w) ==
    /\ workers[w].pc = "walk"
    /\ LET wk == workers[w]
           top == wk.stack[Len(wk.stack)]
           child == Append(top.dir, Head(top.names))
           stack == [wk.stack EXCEPT ![Len(wk.stack)].names = Tail(@)]
       IN  IF ~Exists(fs, child)
           THEN SetWorker(w, AfterError(Logged(wk, "LogError", child),
                                        WalkError(wk.res, child, NilInfo),
                                        stack))
           ELSE SetWorker(w, [wk EXCEPT !.pc = "visit", !.stack = stack,
                                        !.cur = child,
                                        !.info = InfoOf(fs[child])])
    /\ UNCHANGED <<goos, numCPU, bytes, formatted, dryRun, maxWorkers, directories, fs0, fs, mainpc,
                   response, dpc, loaded, workChan, workClosed, resultChan,
                   resultClosed, wg, closer, result, taken, cleaned, merged,
                   deleteCalls, lateSend>>

\* The worker merging its result into the aggregate itself instead of
\* sending it.
WorkerSendMerges(w) ==
    /\ workers[w].pc = "send"
    /\ result' = mergeResults(result, workers[w].res)
    /\ merged' = Bump(merged, workers[w].idx)
    /\ SetWorker(w, ReadyWorker)
    /\ UNCHANGED <<goos, numCPU, bytes, formatted, dryRun, maxWorkers, directories, fs0, fs, mainpc,
                   response, dpc, loaded, workChan, workClosed, resultChan,
                   resultClosed, wg, closer, taken, cleaned, deleteCalls,
                   lateSend>>

\* The worker with one result for all its directories, allocated before
\* the loop instead of in every call of cleanDirectory (line 110).
WorkerSendKeepsResult(w) ==
    /\ workers[w].pc = "send"
    /\ \/ resultClosed > 0
       \/ Len(resultChan) < ResultCap(directories)
    /\ resultChan' = IF resultClosed > 0 THEN resultChan
                     ELSE Append(resultChan, [idx |-> workers[w].idx,
                                              res |-> workers[w].res])
    /\ lateSend' = (lateSend \/ resultClosed > 0)
    /\ SetWorker(w, [ReadyWorker EXCEPT !.res = workers[w].res])
    /\ UNCHANGED <<goos, numCPU, bytes, formatted, dryRun, maxWorkers, directories, fs0, fs, mainpc,
                   response, dpc, loaded, workChan, workClosed, resultClosed,
                   wg, closer, result, taken, cleaned, merged, deleteCalls>>

\* resultChan <- dirResult (line 84); a send on a closed channel panics.
WorkerSend(w) ==
    /\ workers[w].pc = "send"
    /\ \/ resultClosed > 0
       \/ Len(resultChan) < ResultCap(directories)
    /\ resultChan' = IF resultClosed > 0 THEN resultChan
                     ELSE Append(resultChan, [idx |-> workers[w].idx,
                                              res |-> workers[w].res])
    /\ lateSend' = (lateSend \/ resultClosed > 0)
    /\ SetWorker(w, ReadyWorker)
    /\ UNCHANGED <<goos, numCPU, bytes, formatted, dryRun, maxWorkers, directories, fs0, fs, mainpc,
                   response, dpc, loaded, workChan, workClosed, resultClosed,
                   wg, closer, result, taken, cleaned, merged, deleteCalls>>

----------------------------------------------------------------------------
\* CleanDirectories (lines 67-107).

\* Lines 69-87 with no worker started when there is no target.
DispatchNoWorkersIfEmpty ==
    /\ dpc = "start"
    /\ mainpc \in {"lib", "cleaning"}
    /\ workers' = IF directories = <<>> THEN workers
                  ELSE [w \in Workers |-> ReadyWorker]
    /\ wg' = IF directories = <<>> THEN 0 ELSE maxWorkers
    /\ dpc' = "load"
    /\ UNCHANGED <<goos, numCPU, bytes, formatted, dryRun, maxWorkers, directories, fs0, fs, mainpc,
                   response, loaded, workChan, workClosed, resultChan,
                   resultClosed, closer, result, taken, cleaned, merged,
                   deleteCalls, lateSend>>

\* Lines 69-87 with wg.Add(1) once, before the loop of line 78.
DispatchAddsOnce ==
    /\ dpc = "start"
    /\ mainpc \in {"lib", "cleaning"}
    /\ workers' = [w \in Workers |-> ReadyWorker]
    /\ wg' = 1
    /\ dpc' = "load"
    /\ UNCHANGED <<goos, numCPU, bytes, formatted, dryRun, maxWorkers, directories, fs0, fs, mainpc,
                   response, loaded, workChan, workClosed, resultChan,
                   resultClosed, closer, result, taken, cleaned, merged,
                   deleteCalls, lateSend>>

\* Lines 69-87: the channels are made and maxWorkers workers started.
Dispatch ==
    /\ dpc = "start"
    /\ mainpc \in {"lib", "cleaning"}
    /\ workers' = [w \in Workers |-> ReadyWorker]
    /\ wg' = maxWorkers
    /\ dpc' = "load"
    /\ UNCHANGED <<goos, numCPU, bytes, formatted, dryRun, maxWorkers, directories, fs0, fs, mainpc,
                   response, loaded, workChan, workClosed, resultChan,
                   resultClosed, closer, result, taken, cleaned, merged,
                   deleteCalls, lateSend>>

\* Lines 89-91: workChan <- dir.
LoadWork ==
    /\ dpc = "load"
    /\ loaded < Len(directories)
    /\ Len(workChan) < WorkCap(directories)
    /\ workChan' = Append(workChan, loaded + 1)
    /\ loaded' = loaded + 1
    /\ UNCHANGED <<goos, numCPU, bytes, formatted, dryRun, maxWorkers, directories, fs0, fs, mainpc,
                   response, dpc, workClosed, resultChan, resultClosed, wg,
                   closer, workers, result, taken, cleaned, merged,
                   deleteCalls, lateSend>>

\* Lines 92-97 without close(workChan).
CloseWorkForgotten ==
    /\ dpc = "load"
    /\ loaded = Len(directories)
    /\ closer' = "wait"
    /\ dpc' = "drain"
    /\ UNCHANGED <<goos, numCPU, bytes, formatted, dryRun, maxWorkers, directories, fs0, fs, mainpc,
                   response, loaded, workChan, workClosed, resultChan,
                   resultClosed, wg, workers, result, taken, cleaned, merged,
                   deleteCalls, lateSend>>

\* Lines 92-97: close(workChan), and the goroutine that waits is started.
CloseWork ==
    /\ dpc = "load"
    /\ loaded = Len(directories)
    /\ workClosed' = TRUE
    /\ closer' = "wait"
    /\ dpc' = "drain"
    /\ UNCHANGED <<goos, numCPU, bytes, formatted, dryRun, maxWorkers, directories, fs0, fs, mainpc,
                   response, loaded, workChan, resultChan, resultClosed, wg,
                   workers, result, taken, cleaned, merged, deleteCalls,
                   lateSend>>

\* Lines 95-96 without wg.Wait().
CloseResultsWithoutWait ==
    /\ closer = "wait"
    /\ resultClosed' = resultClosed + 1
    /\ closer' = "done"
    /\ UNCHANGED <<goos, numCPU, bytes, formatted, dryRun, maxWorkers, directories, fs0, fs, mainpc,
                   response, dpc, loaded, workChan, workClosed, resultChan,
                   wg, workers, result, taken, cleaned, merged, deleteCalls,
                   lateSend>>

\* Lines 95-96: wg.Wait() returns and resultChan is closed.
CloseResults ==
    /\ closer = "wait"
    /\ wg = 0
    /\ resultClosed' = resultClosed + 1
    /\ closer' = "done"
    /\ UNCHANGED <<goos, numCPU, bytes, formatted, dryRun, maxWorkers, directories, fs0, fs, mainpc,
                   response, dpc, loaded, workChan, workClosed, resultChan,
                   wg, workers, result, taken, cleaned, merged, deleteCalls,
                   lateSend>>

\* Lines 99-101: a partial result is received and merged.
Drain ==
    /\ dpc = "drain"
    /\ resultChan # <<>>
    /\ result' = mergeResults(result, Head(resultChan).res)
    /\ merged' = Bump(merged, Head(resultChan).idx)
    /\ resultChan' = Tail(resultChan)
    /\ UNCHANGED <<goos, numCPU, bytes, formatted, dryRun, maxWorkers, directories, fs0, fs, mainpc,
                   response, dpc, loaded, workChan, workClosed, resultClosed,
                   wg, closer, workers, taken, cleaned, deleteCalls, lateSend>>

\* Lines 99-106: the range loop ends on the closed, empty channel and
\* CleanDirectories returns.
Return ==
    /\ dpc = "drain"
    /\ resultChan = <<>>
    /\ resultClosed > 0
    /\ dpc' = "done"
    /\ mainpc' = IF mainpc = "cleaning" THEN "report" ELSE mainpc
    /\ UNCHANGED <<goos, numCPU, bytes, formatted, dryRun, maxWorkers, directories, fs0, fs, response,
                   loaded, workChan, workClosed, resultChan, resultClosed, wg,
                   closer, workers, result, taken, cleaned, merged,
                   deleteCalls, lateSend>>

----------------------------------------------------------------------------
\* FormatSize (lines 251-262) on byte counts as base-1024 digit sequences.

\* const unit = 1024
unit == 1024

\* The byte count of a small integer.
Bytes(k) == IF k < unit THEN <<k>> ELSE <<k % unit, k \div unit>>

\* bytes < unit
LessThanUnit(b) == Len(b) = 1

\* n / unit
DivUnit(b) == IF Len(b) = 1 THEN <<0>> ELSE Tail(b)

\* The loop of line 257 with the test n > unit for n >= unit.
UnitLoopStrict(n, exp) ==
    LET RECURSIVE Go(_, _)
        Go(m, e) == IF ~LessThanUnit(m) /\ m # <<0, 1>>
                    THEN Go(DivUnit(m), e + 1) ELSE e
    IN  Go(n, exp)

\* The loop of line 257: exp when it ends (div is then unit^(exp+1)).
UnitLoop(n, exp) ==
    LET RECURSIVE Go(_, _)
        Go(m, e) == IF ~LessThanUnit(m) THEN Go(DivUnit(m), e + 1) ELSE e
    IN  Go(n, exp)

\* "KMGTPE"[exp]; an index out of range panics.
UnitLetter(exp) ==
    LET letters == <<"K", "M", "G", "T", "P", "E">>
    IN  IF exp + 1 \in DOMAIN letters THEN letters[exp + 1] ELSE "panic"

\* The integer the digits from position k on stand for.
RECURSIVE Whole(_, _)
Whole(b, k) == IF k > Len(b) THEN 0 ELSE b[k] + unit * Whole(b, k + 1)

\* float64(bytes)/float64(div) with div = unit^k, in tenths as %.1f rounds
\* it: to the nearest tenth, an exact half to the even one.  (The rounding
\* of float64(bytes) itself, for counts of 2^53 and more, does not reach the
\* tenths of the counts of the model.)
Tenths(b, k) ==
    LET scaled == 10 * b[k]
        q == 10 * Whole(b, k + 1) + scaled \div unit
        r == scaled % unit
        sticky == \E i \in 1..(k - 1) : b[i] # 0
        half == unit \div 2
    IN  IF r > half \/ (r = half /\ sticky) THEN q + 1
        ELSE IF r = half /\ q % 2 = 1 THEN q + 1
        ELSE q

\* fmt.Sprintf("%.1f %cB", ...)
SprintfUnit(tenths, letter) ==
    ToString(tenths \div 10) \o "." \o ToString(tenths % 10) \o " "
        \o letter \o "B"

\* FormatSize(bytes)
FormatSize(b) ==
    IF LessThanUnit(b) THEN ToString(b[1]) \o " B"
    ELSE LET exp == UnitLoop(DivUnit(b), 0)
         IN  SprintfUnit(Tenths(b, exp + 1), UnitLetter(exp))

\* FormatSize called on a byte count.
Format ==
    /\ mainpc = "format"
    /\ formatted = ""
    /\ formatted' = FormatSize(bytes)
    /\ UNCHANGED <<goos, numCPU, bytes, dryRun, maxWorkers, directories, fs0,
                   fs, mainpc, response, dpc, loaded, workChan, workClosed,
                   resultChan, resultClosed, wg, closer, workers, result,
                   taken, cleaned, merged, deleteCalls, lateSend>>

----------------------------------------------------------------------------
\* main (cmd/temp-deleter/main.go).

\* What standard input holds when main asks: a line, or nothing at all.
Inputs ==
    [eof : {FALSE},
     line : {"y", "Y", "yes", "Yes", "", "n", "N", "no", "YES", "yEs", "y "}]
    \cup {[eof |-> TRUE, line |-> ""]}

\* scanner.Scan(); scanner.Text(): the line, or "" at the end of input.
ScanText(in) == IF in.eof THEN "" ELSE in.line

\* Line 45 with the empty response taken as consent.
ProceedsByDefault(r) == r \in {"", "y", "Y", "yes", "Yes"}

\* Line 45.
Proceeds(r) == ~(r # "y" /\ r # "Y" /\ r # "yes" /\ r # "Yes")

\* Lines 41-51: the response is read; main returns or goes on to call
\* CleanDirectories.
Confirm ==
    /\ mainpc = "prompt"
    /\ \E in \in Inputs :
          /\ response' = ScanText(in)
          /\ mainpc' = IF Proceeds(ScanText(in)) THEN "cleaning" ELSE "canceled"
    /\ UNCHANGED <<goos, numCPU, bytes, formatted, dryRun, maxWorkers, directories, fs0, fs, dpc,
                   loaded, workChan, workClosed, resultChan, resultClosed, wg,
                   closer, workers, result, taken, cleaned, merged,
                   deleteCalls, lateSend>>

\* Lines 53-79: the results are shown, the space freed through FormatSize
\* (line 60), and main ends.
Report ==
    /\ mainpc = "report"
    /\ mainpc' = "exit"
    /\ bytes' = Bytes(result.DeletedSize)
    /\ formatted' = FormatSize(Bytes(result.DeletedSize))
    /\ UNCHANGED <<goos, numCPU, dryRun, maxWorkers, directories, fs0, fs, response,
                   dpc, loaded, workChan, workClosed, resultChan, resultClosed,
                   wg, closer, workers, result, taken, cleaned, merged,
                   deleteCalls, lateSend>>

----------------------------------------------------------------------------
\* The initial states: the Cleaner as New leaves it, a target list and a
\* filesystem.

\* New without the upper limit of lines 55-57.
NewMaxWorkersNoCap(cpus) ==
    IF cpus < 2 THEN 2 ELSE cpus

\* New, lines 51-57.
NewMaxWorkers(cpus) ==
    IF cpus < 2 THEN 2 ELSE IF cpus > 8 THEN 8 ELSE cpus

\* The target directories: a with the subdirectory d (or .d) and the file f,
\* b with the file g, and m, which does not exist.
DirA == <<<<"a">>>>
DirB == <<<<"b">>>>
DirM == <<<<"m">>>>

SubNames == {<<"d">>, <<Dot, "d">>}
XNames == {<<"x">>, <<Dot, "x">>}
FNames == {<<"f">>, <<Dot, "f">>, DesktopIni}

\* (probe, undeletable) of a file.
FileKinds ==
    {<<"ok", FALSE>>, <<"openfails", FALSE>>, <<"closefails", FALSE>>,
     <<"ok", TRUE>>}

\* The function with the given set of <<path, entry>> pairs as its graph.
MkFs(S) == [p \in {e[1] : e \in S} |-> (CHOOSE e \in S : e[1] = p)[2]]

TreeB == {<<DirB, DirEntry(FALSE)>>, <<Append(DirB, <<"g">>), FileEntry(4, "ok", FALSE)>>}

\* a/f in every name and kind, or absent.
TreesF ==
    {{}} \cup
    {{<<Append(DirA, n), FileEntry(2, k[1], k[2])>>} : n \in FNames, k \in FileKinds}

\* a/d with a/d/x in every name and kind, or without it, or absent.
TreesSub ==
    {{}} \cup
    {{<<Append(DirA, d), DirEntry(u)>>} : d \in SubNames, u \in BOOLEAN} \cup
    {{<<Append(DirA, d), DirEntry(u)>>,
      <<Append(Append(DirA, d), n), FileEntry(1, k[1], k[2])>>} :
        d \in SubNames, u \in BOOLEAN, n \in XNames, k \in FileKinds}

AllTrees ==
    {MkFs({<<DirA, DirEntry(FALSE)>>} \cup s \cup f \cup TreeB) :
        s \in TreesSub, f \in TreesF}

\* The tree of the runs over several targets: a/d/x and b/g, plain files.
PlainTree ==
    MkFs({<<DirA, DirEntry(FALSE)>>,
          <<Append(DirA, <<"d">>), DirEntry(FALSE)>>,
          <<Append(Append(DirA, <<"d">>), <<"x">>), FileEntry(1, "ok", FALSE)>>}
         \cup TreeB)

DirS == Append(DirA, <<"d">>)

RECURSIVE ListsUpTo(_, _)
ListsUpTo(S, n) ==
    IF n = 0 THEN {<<>>}
    ELSE LET shorter == ListsUpTo(S, n - 1)
         IN  shorter \cup {Append(l, t) : l \in shorter, t \in S}

StartAt(dirs, f, os, dry, cpus, mpc, size) ==
    /\ goos = os
    /\ numCPU = cpus
    /\ bytes = size
    /\ formatted = ""
    /\ dryRun = dry
    /\ maxWorkers = NewMaxWorkers(cpus)
    /\ directories = dirs
    /\ fs0 = f
    /\ fs = f
    /\ mainpc = mpc
    /\ response = ""
    /\ dpc = "start"
    /\ loaded = 0
    /\ workChan = <<>>
    /\ workClosed = FALSE
    /\ resultChan = <<>>
    /\ resultClosed = 0
    /\ wg = 0
    /\ closer = "off"
    /\ workers = [w \in 1..NewMaxWorkers(cpus) |-> OffWorker]
    /\ result = EmptyResult
    /\ taken = [i \in 1..Len(dirs) |-> 0]
    /\ cleaned = [i \in 1..Len(dirs) |-> 0]
    /\ merged = [i \in 1..Len(dirs) |-> 0]
    /\ deleteCalls = 0
    /\ lateSend = FALSE

Start(dirs, f, os, dry, cpus, mpc) ==
    StartAt(dirs, f, os, dry, cpus, mpc, <<0>>)

\* runtime.NumCPU() of the runs over targets: two or more (one processor
\* gives the worker count of two, and is among the runs of InitCPUs).
CPUs == 2..MaxCPU

\* CleanDirectories called on one target, over every tree.
InitWalk ==
    \E os \in {"linux", "windows"}, dry \in BOOLEAN, n \in CPUs,
       f \in AllTrees :
        Start(<<DirA>>, f, os, dry, n, "lib")

\* CleanDirectories called on every list of up to MaxTargets targets, with
\* repeated and missing targets.
InitPool ==
    \E dirs \in ListsUpTo({DirA, DirB, DirM}, MaxTargets), dry \in BOOLEAN,
       n \in CPUs :
        Start(dirs, PlainTree, "linux", dry, n, "lib")

\* CleanDirectories called on a target and a directory inside it.
InitNested ==
    \E dirs \in {<<DirA, DirS>>, <<DirS, DirA>>}, dry \in BOOLEAN,
       n \in CPUs :
        Start(dirs, PlainTree, "linux", dry, n, "lib")

\* CleanDirectories called on one target more than there are workers.
InitBacklog ==
    \E n \in CPUs, dry \in BOOLEAN, first \in {DirB, DirM} :
        Start([i \in 1..(NewMaxWorkers(n) + 1) |->
                  IF i = 1 THEN first ELSE DirM],
              PlainTree, "linux", dry, n, "lib")

\* main: cleaner.New(log, false), and the list of the configuration.
InitMain ==
    \E dirs \in {<<DirA, DirM>>}, n \in CPUs :
        Start(dirs, PlainTree, "linux", FALSE, n, "prompt")

\* a with the unreadable subdirectory d, empty or not, and one plain file
\* whose name sorts before d (b) or after it (f).
TreesUnreadable ==
    {MkFs({<<DirA, DirEntry(FALSE)>>, <<DirS, DirEntry(TRUE)>>,
           <<Append(DirA, n), FileEntry(2, "ok", FALSE)>>}
          \cup (IF x THEN {<<Append(DirS, <<"x">>), FileEntry(1, "ok", FALSE)>>}
                     ELSE {})) :
        n \in {<<"b">>, <<"f">>}, x \in BOOLEAN}

\* CleanDirectories called on a target with an unreadable subdirectory.
InitUnreadable ==
    \E f \in TreesUnreadable, os \in {"linux", "windows"}, dry \in BOOLEAN,
       n \in CPUs :
        Start(<<DirA>>, f, os, dry, n, "lib")

\* a/d/x with x a directory.
DeepTree ==
    MkFs({<<DirA, DirEntry(FALSE)>>, <<DirS, DirEntry(FALSE)>>,
          <<Append(DirS, <<"x">>), DirEntry(FALSE)>>})

\* CleanDirectories called on a target with a directory two levels down.
InitDeep ==
    \E dry \in BOOLEAN, n \in CPUs :
        Start(<<DirA>>, DeepTree, "linux", dry, n, "lib")

\* New on hosts of 1 to MaxNumCPU processors; CleanDirectories called on no
\* target and on one missing target.
InitCPUs ==
    \E n \in 1..MaxNumCPU, dirs \in {<<>>, <<DirM>>} :
        Start(dirs, PlainTree, "linux", FALSE, n, "lib")

\* a, unreadable, with the file a/f; and b.
RootUnreadableTree ==
    MkFs({<<DirA, DirEntry(TRUE)>>,
          <<Append(DirA, <<"f">>), FileEntry(2, "ok", FALSE)>>} \cup TreeB)

\* CleanDirectories called on a target that cannot be listed, alone and
\* next to b.
InitRootUnreadable ==
    \E dirs \in {<<DirA>>, <<DirA, DirB>>, <<DirB, DirA>>}, dry \in BOOLEAN,
       n \in CPUs :
        Start(dirs, RootUnreadableTree, "linux", dry, n, "lib")

\* a with one entry, a file of every kind or a directory, under each of
\* the names the rules of shouldDelete look at.
PolicyNames == {<<"f">>, <<Dot, "f">>, DesktopIni, ThumbsDbLower, ThumbsDbUpper}

PolicyTrees ==
    {MkFs({<<DirA, DirEntry(FALSE)>>, <<Append(DirA, n), FileEntry(2, k[1], k[2])>>}) :
        n \in PolicyNames, k \in FileKinds}
    \cup {MkFs({<<DirA, DirEntry(FALSE)>>, <<Append(DirA, n), DirEntry(FALSE)>>}) :
            n \in PolicyNames}

\* CleanDirectories called on a target with one entry, on both hosts.
InitPolicy ==
    \E f \in PolicyTrees, os \in {"linux", "windows"}, dry \in BOOLEAN,
       n \in CPUs :
        Start(<<DirA>>, f, os, dry, n, "lib")

Init ==
    \/ InitWalk \/ InitPool \/ InitNested \/ InitBacklog \/ InitMain
    \/ InitUnreadable \/ InitDeep \/ InitCPUs \/ InitRootUnreadable
    \/ InitPolicy

Next ==
    \/ Confirm
    \/ Dispatch
    \/ LoadWork
    \/ CloseWork
    \/ CloseResults
    \/ Drain
    \/ Return
    \/ Report
    \/ \E w \in Workers : WorkerReceive(w)
    \/ \E w \in Workers : WorkerExit(w)
    \/ \E w \in Workers : WorkerStat(w)
    \/ \E w \in Workers : WorkerLstatRoot(w)
    \/ \E w \in Workers : WorkerVisit(w)
    \/ \E w \in Workers : WorkerDelete(w)
    \/ \E w \in Workers : WorkerNext(w)
    \/ \E w \in Workers : WorkerSend(w)

Spec == Init /\ [][Next]_vars

\* The byte counts FormatSize is called on: a top digit, the digit below
\* it, and the digits below those all 0 or all 1023; at most 2^63 - 1.
TopDigits == {1, 7, 256, 512, 1023}
NextDigits == {0, 1, 256, 512, 768, 1023}

ByteCounts ==
    {<<d>> : d \in {0} \cup TopDigits}
    \cup {[i \in 1..len |->
             IF i = len THEN top ELSE IF i = len - 1 THEN nxt ELSE low] :
            len \in 2..MaxDigits, top \in TopDigits, nxt \in NextDigits,
            low \in {0, 1023}}

Int64Counts == {b \in ByteCounts : Len(b) = MaxDigits => b[MaxDigits] <= 7}

InitFormat ==
    \E b \in Int64Counts :
        StartAt(<<>>, PlainTree, "linux", FALSE, 2, "format", b)

\* FormatSize called on every byte count of Int64Counts.
FormatSpec == InitFormat /\ [][Format]_vars

\* The Go scheduler does not stop while a goroutine of the run can take a
\* step: the dispatcher, the goroutine that closes resultChan, or a worker.
DispatcherStep == Dispatch \/ LoadWork \/ CloseWork \/ Drain \/ Return

WorkerStep(w) ==
    \/ WorkerReceive(w) \/ WorkerExit(w) \/ WorkerStat(w)
    \/ WorkerLstatRoot(w) \/ WorkerVisit(w) \/ WorkerDelete(w)
    \/ WorkerNext(w) \/ WorkerSend(w)

GoroutineStep ==
    DispatcherStep \/ CloseResults \/ \E w \in Workers : WorkerStep(w)

\* CleanDirectories called on every list of up to MaxTargets targets that
\* are b or missing.
InitShort ==
    \E dirs \in ListsUpTo({DirB, DirM}, MaxTargets), dry \in BOOLEAN,
       n \in CPUs :
        Start(dirs, PlainTree, "linux", dry, n, "lib")

\* Runs with fewer targets than workers, as many, and more, scheduled fairly.
FairSpec ==
    /\ InitShort \/ InitBacklog \/ InitMain
    /\ [][Next]_vars
    /\ WF_vars(GoroutineStep)

----------------------------------------------------------------------------
\* The targets cleaned one at a time: cleanDirectory run to its end on one
\* target after the other, by one task.

SumCounters(r1, r2) == [c \in Counters |-> r1[c] + r2[c]]

\* The callback with err = nil, for an entry other than the root.
SeqCallback(dry, f, res, path, info) ==
    IF shouldDelete(f, path, info) /\ ~dry
    THEN LET g == Probed(f, path, info)
         IN  [fs |-> deleteItem(g, path, info),
              res |-> IF deleteItemFails(g, path, info)
                      THEN CountFailed(CountTotal(res, info), path, info)
                      ELSE CountDeleted(CountTotal(res, info), info)]
    ELSE [fs |-> Probed(f, path, info),
          res |-> ClassifiedAs(dry, res, f, path, info)]

RECURSIVE SeqWalk(_, _, _, _, _, _)
RECURSIVE SeqWalkNames(_, _, _, _, _, _)

\* walk(path, info)
SeqWalk(dry, f, res, root, path, info) ==
    IF info.isDir /\ ReadDirFails(f, path)
    THEN [fs |-> f, res |-> WalkError(res, path, info)]
    ELSE LET names == IF info.isDir THEN readDirNames(f, path) ELSE <<>>
             after == IF path = root THEN [fs |-> f, res |-> res]
                      ELSE SeqCallback(dry, f, res, path, info)
         IN  SeqWalkNames(dry, after.fs, after.res, root, path, names)

\* The loop of walk over the names of directory dir.
SeqWalkNames(dry, f, res, root, dir, names) ==
    IF names = <<>> THEN [fs |-> f, res |-> res]
    ELSE LET child == Append(dir, Head(names))
             r == IF ~Exists(f, child)
                  THEN [fs |-> f, res |-> WalkError(res, child, NilInfo)]
                  ELSE SeqWalk(dry, f, res, root, child, InfoOf(f[child]))
         IN  SeqWalkNames(dry, r.fs, r.res, root, dir, Tail(names))

\* cleanDirectory(dirPath) on filesystem f.
SeqClean(dry, f, dirPath) ==
    IF ~Exists(f, dirPath)
    THEN [fs |-> f, res |-> Add(EmptyResult, "SkippedDirs", 1)]
    ELSE SeqWalk(dry, f, EmptyResult, dirPath, dirPath, InfoOf(f[dirPath]))

\* The sum of the counters of the targets cleaned in list order.
RECURSIVE SeqTotals(_, _, _)
SeqTotals(dry, f, dirs) ==
    IF dirs = <<>> THEN Numeric(EmptyResult)
    ELSE LET r == SeqClean(dry, f, Head(dirs))
         IN  SumCounters(Numeric(r.res), SeqTotals(dry, r.fs, Tail(dirs)))

\* No target is listed twice and none lies inside another.
Separate(dirs) ==
    \A i, j \in 1..Len(dirs) : i # j => ~IsPrefix(dirs[i], dirs[j])

----------------------------------------------------------------------------
\* Properties.

Done == dpc = "done"

Positions == 1..Len(directories)

\* Every partial result there is: the workers', those on resultChan, and
\* the aggregate.
AllResults ==
    {workers[w].res : w \in Workers}
        \cup {resultChan[i].res : i \in 1..Len(resultChan)}
        \cup {result}

\* The entries the run has removed.
Removed == (DOMAIN fs0) \ (DOMAIN fs)

\* C1: every position of the target list is received from workChan once,
\* cleanDirectory is called for it once and one partial result for it is
\* merged: never more than once, and once each when CleanDirectories
\* returns, a missing directory included.
C1_EachTargetOnce ==
    /\ \A i \in Positions :
          /\ taken[i] <= 1
          /\ cleaned[i] <= taken[i]
          /\ merged[i] <= cleaned[i]
    /\ Done => \A i \in Positions :
                  taken[i] = 1 /\ cleaned[i] = 1 /\ merged[i] = 1

\* C1 witness: a run over three targets, one of them missing, has returned.
C1_Witness ==
    /\ Done
    /\ Len(directories) = 3
    /\ \E i \in Positions : ~Exists(fs0, directories[i])
    /\ \A i \in Positions : merged[i] = 1

\* C2: a call of CleanDirectories that has started returns: no worker, nor
\* the dispatcher, nor the closing goroutine, stays blocked.
C2_Returns == (mainpc \in {"lib", "cleaning"}) ~> Done

\* C2 witness: a run with more targets than workers has returned and
\* every worker has left its loop.
C2_Witness ==
    /\ Done
    /\ Len(directories) > maxWorkers
    /\ \A w \in Workers : workers[w].pc = "exit"

\* C3: over two or more separate target directories, the aggregate counters
\* CleanDirectories returns are those of cleaning the targets one at a time
\* in list order and summing the counters of each.
C3_SameAsSequential ==
    (Done /\ Len(directories) >= 2 /\ Separate(directories))
        => Numeric(result) = SeqTotals(dryRun, fs0, directories)

\* C3 witness: a real run over the two directories a and b, each with
\* entries, has returned with deletions of both counted.
C3_Witness ==
    /\ Done
    /\ ~dryRun
    /\ directories = <<DirA, DirB>>
    /\ result.DeletedFiles >= 1
    /\ result.DeletedDirs >= 1

C5_InUseNeverRemoved ==
    \A p \in Removed : fs0[p].isDir \/ fs0[p].probe # "openfails"

\* C6: in the command line program CleanDirectories starts, and entries are
\* removed, only after the response was read and was one of "y", "Y",
\* "yes", "Yes"; after any other response the program has ended without
\* starting CleanDirectories or removing anything.
C6_OnlyAfterConfirmation ==
    mainpc # "lib" =>
        /\ (dpc # "start" \/ deleteCalls > 0 \/ fs # fs0)
              => /\ mainpc \in {"cleaning", "report", "exit"}
                 /\ response \in {"y", "Y", "yes", "Yes"}
        /\ (mainpc \notin {"prompt", "canceled"})
              => response \in {"y", "Y", "yes", "Yes"}

\* C6 witness: the program has removed entries after the response "Yes".
C6_Witness ==
    /\ mainpc = "report"
    /\ response = "Yes"
    /\ Removed # {}

\* C7: when a run has completed, deletedFiles + failedFiles + skippedFiles
\* equals totalFiles in the aggregate result.
C7_FilesAddUp ==
    Done => result.DeletedFiles + result.FailedFiles + result.SkippedFiles
                = result.TotalFiles

\* C8: in every state, every per-directory result and the aggregate have
\* deletedFiles <= totalFiles and deletedDirs <= totalDirs.
C8_DeletedAtMostTotal ==
    \A r \in AllResults :
        /\ r.DeletedFiles <= r.TotalFiles
        /\ r.DeletedDirs <= r.TotalDirs

\* C8 witness: a returned aggregate that counts a deleted file and a
\* deleted directory.
C8_Witness ==
    /\ Done
    /\ result.DeletedFiles >= 1
    /\ result.DeletedDirs >= 1

\* C9: a real run in which every deletion succeeds returns the counters of
\* the dry run over the same initial tree.
C9_DryRunSameCounters ==
    (Done /\ ~dryRun /\ Len(directories) = 1
          /\ \A i \in 1..Len(result.ErrorMessages) :
                result.ErrorMessages[i][1] # "Delete error")
        => Numeric(result) = SeqTotals(TRUE, fs0, directories)

\* C10: in a dry run deleteItem is never called and the filesystem stays
\* the one the run started with: the same paths, kinds and sizes.
C10_DryRunLeavesFilesystem ==
    dryRun => deleteCalls = 0 /\ fs = fs0

\* C10 witness: a dry run has returned with a file and a directory counted
\* as deleted.
C10_Witness ==
    /\ dryRun
    /\ Done
    /\ result.DeletedFiles >= 1
    /\ result.DeletedDirs >= 1

----------------------------------------------------------------------------
\* Empty and missing targets, unreadable subdirectories, the space freed.

\* The positions of a worker inside cleanDirectory, up to the send.
Running == {"stat", "lstat", "visit", "delete", "walk", "send"}

\* C11: CleanDirectories called on the empty list returns, and then every
\* counter of the result is zero and it has no error message, although all
\* maxWorkers workers were started (and have exited) and both channels were
\* made with capacity zero.
C11_EmptyList ==
    /\ []((directories = <<>> /\ Done) =>
            /\ result = EmptyResult
            /\ \A w \in Workers : workers[w].pc = "exit"
            /\ WorkCap(directories) = 0
            /\ ResultCap(directories) = 0
            /\ fs = fs0)
    /\ ((directories = <<>> /\ mainpc = "lib") ~> Done)

\* C11 witness: the run over no target has returned the zero result, its
\* workers started and gone.
C11_Witness ==
    /\ directories = <<>>
    /\ Done
    /\ result = EmptyResult
    /\ \A w \in Workers : workers[w].pc = "exit"

\* What cleanDirectory returns for a path that does not exist.
MissingResult == Add(EmptyResult, "SkippedDirs", 1)

\* C12: for a target that does not exist cleanDirectory never reaches the
\* walk nor deleteItem, and the partial result it returns and sends has
\* skippedDirs = 1, every other counter zero and no message; the run over
\* that single target returns the same aggregate and removes nothing.
C12_MissingTarget ==
    /\ \A w \in Workers :
          (workers[w].pc \in Running /\ ~Exists(fs0, workers[w].dir)) =>
              /\ workers[w].pc \in {"stat", "send"}
              /\ workers[w].pc = "stat" => workers[w].res = EmptyResult
              /\ workers[w].pc = "send" => workers[w].res = MissingResult
    /\ \A k \in 1..Len(resultChan) :
          ~Exists(fs0, directories[resultChan[k].idx]) =>
              resultChan[k].res = MissingResult
    /\ (Done /\ Len(directories) = 1 /\ ~Exists(fs0, directories[1])) =>
          /\ result = MissingResult
          /\ fs = fs0
          /\ deleteCalls = 0

\* C12 witness: the run over the one missing target m has returned.
C12_Witness ==
    /\ Done
    /\ directories = <<DirM>>
    /\ result = MissingResult

\* The target a holds exactly the unreadable subdirectory d and the plain,
\* deletable file n.
UnreadableScenario(d, n) ==
    /\ directories = <<DirA>>
    /\ Children(fs0, DirA) = {d, n}
    /\ fs0[d].isDir /\ fs0[d].unreadable
    /\ ~fs0[n].isDir /\ fs0[n].probe = "ok" /\ ~fs0[n].undeletable
    /\ Base(n) \in {<<"b">>, <<"f">>}

\* C13: a real run over a directory that holds one unreadable subdirectory
\* and one plain file, visited before or after it, returns normally with the
\* file counted and deleted, one failed directory and one walk error message
\* for the subdirectory, and nothing else; the subdirectory stays.
C13_UnreadableIsolated ==
    (Done /\ ~dryRun /\ Len(directories) = 1) =>
      \A d, n \in DOMAIN fs0 :
        UnreadableScenario(d, n) =>
            /\ result = [EmptyResult EXCEPT
                            !.TotalFiles = 1, !.TotalSize = fs0[n].size,
                            !.DeletedFiles = 1, !.DeletedSize = fs0[n].size,
                            !.FailedDirs = 1,
                            !.ErrorMessages = <<Message("Walk error", d)>>]
            /\ ~Exists(fs, n)
            /\ Subtree(fs, d) = Subtree(fs0, d)

\* C13 witness: such a run has returned where the file (b) is visited before
\* the unreadable subdirectory (d), which is not empty.
C13_Witness ==
    /\ Done
    /\ ~dryRun
    /\ UnreadableScenario(DirS, Append(DirA, <<"b">>))
    /\ Children(fs0, DirS) # {}
    /\ result.DeletedFiles = 1
    /\ result.FailedDirs = 1

\* The regular files the run has removed, and the sum of their sizes.
RemovedFiles == {p \in Removed : ~fs0[p].isDir}

RECURSIVE SumSizes(_)
SumSizes(S) ==
    IF S = {} THEN 0
    ELSE LET p == CHOOSE q \in S : TRUE
         IN  fs0[p].size + SumSizes(S \ {p})

\* C14: when a real run has completed, deletedSize is the sum of the sizes
\* of the regular files the run removed, those removed with a recursively
\* deleted subdirectory included.
C14_DeletedSizeIsRemovedSize ==
    (Done /\ ~dryRun) => result.DeletedSize = SumSizes(RemovedFiles)

----------------------------------------------------------------------------
\* The result channel, the merge and the aggregate.

\* C15: resultChan is closed at most once, only when every worker has
\* exited, no worker sends on it after the close, and it has been closed
\* once when CleanDirectories returns.
C15_ClosedOnceAfterWorkers ==
    /\ resultClosed <= 1
    /\ resultClosed > 0 => \A w \in Workers : workers[w].pc = "exit"
    /\ ~lateSend
    /\ Done => resultClosed = 1

\* C15 witness: resultChan was closed while results of two targets were
\* still waiting on it.
C15_Witness ==
    /\ resultClosed = 1
    /\ Len(resultChan) = 2
    /\ \A w \in Workers : workers[w].pc = "exit"

\* C16: once a partial result has been merged no worker is inside
\* cleanDirectory: the merges come after the workers' work.
C16_MergeAfterWorkers ==
    (\E i \in Positions : merged[i] > 0)
        => \A w \in Workers : workers[w].pc \notin Running \ {"send"}

\* C17: every step that changes the aggregate is the dispatcher's merge of
\* the result it receives from resultChan; no step of a worker changes it.
C17_OnlyDispatcherWrites ==
    [][result' # result =>
          /\ dpc = "drain"
          /\ resultChan # <<>>
          /\ resultChan' = Tail(resultChan)
          /\ result' = mergeResults(result, Head(resultChan).res)
          /\ workers' = workers]_vars

\* C17 witness: the aggregate holds an error message while a worker is
\* still inside cleanDirectory.
C17_Witness ==
    /\ Len(result.ErrorMessages) >= 1
    /\ \E w \in Workers : workers[w].pc \in {"visit", "delete", "walk"}

\* The complete result of cleanDirectory for position i of the list.
PartialOf(i) == SeqClean(dryRun, fs0, directories[i]).res

RECURSIVE SumPartials(_)
SumPartials(S) ==
    IF S = {} THEN Numeric(EmptyResult)
    ELSE LET i == CHOOSE j \in S : TRUE
         IN  SumCounters(Numeric(PartialOf(i)), SumPartials(S \ {i}))

\* C18: a position whose result is on resultChan or merged is no longer in
\* the hands of a worker; and over separate targets every result on
\* resultChan is the complete result of its directory and the aggregate is
\* the sum of the complete results of the merged positions, never a part of
\* one.
C18_OnlyCompleteResults ==
    /\ \A i \in Positions :
          (merged[i] > 0 \/ \E k \in 1..Len(resultChan) : resultChan[k].idx = i)
              => \A w \in Workers :
                    ~(workers[w].idx = i /\ workers[w].pc \in Running)
    /\ Separate(directories) =>
          /\ \A k \in 1..Len(resultChan) :
                resultChan[k].res = PartialOf(resultChan[k].idx)
          /\ Numeric(result) = SumPartials({i \in Positions : merged[i] > 0})
          /\ Len(directories) = 1 => result \in {EmptyResult, PartialOf(1)}

\* C18 witness: the result of one directory, with a file counted, is merged
\* while another worker is still walking its directory.
C18_Witness ==
    /\ \E i \in Positions : merged[i] = 1
    /\ result.TotalFiles >= 1
    /\ \E w \in Workers : workers[w].pc \in {"visit", "delete", "walk"}

----------------------------------------------------------------------------
\* The worker count and the traversal errors.

Min2(a, b) == IF a < b THEN a ELSE b
Max2(a, b) == IF a > b THEN a ELSE b

\* C19: maxWorkers is max(2, min(NumCPU, 8)); CleanDirectories starts that
\* many workers whatever the number of targets, the WaitGroup counting the
\* ones that have not exited; a worker has exited only with workChan closed
\* and empty.
C19_WorkerCount ==
    /\ numCPU >= 1 => maxWorkers = Max2(2, Min2(numCPU, 8))
    /\ DOMAIN workers = 1..maxWorkers
    /\ dpc = "start" => \A w \in Workers : workers[w].pc = "off"
    /\ dpc # "start" =>
          /\ \A w \in Workers : workers[w].pc # "off"
          /\ wg = Cardinality({w \in Workers : workers[w].pc # "exit"})
    /\ \A w \in Workers :
          workers[w].pc = "exit" => workClosed /\ workChan = <<>>
    /\ Done => \A w \in Workers : workers[w].pc = "exit"

\* C19 witness: on a host of more than eight processors the run over one
\* target has returned, its eight workers gone.
C19_Witness ==
    /\ numCPU > 8
    /\ maxWorkers = 8
    /\ Len(directories) = 1
    /\ Done
    /\ \A w \in Workers : workers[w].pc = "exit"

\* The error messages of r about entries that were directories (or files)
\* when the run started.
FailuresOfKind(r, isDir) ==
    Cardinality({k \in 1..Len(r.ErrorMessages) :
                    fs0[r.ErrorMessages[k][2]].isDir = isDir})

\* C20: in every result the failed directories are as many as the error
\* messages about directories and the failed files as many as the error
\* messages about files: each error is counted with the kind of its entry.
C20_FailureOfOwnKind ==
    \A r \in AllResults :
        /\ r.FailedDirs = FailuresOfKind(r, TRUE)
        /\ r.FailedFiles = FailuresOfKind(r, FALSE)

----------------------------------------------------------------------------
\* The logger, the classification of the descendants, the root of a walk.

\* The calls of a method in the log of a worker, all and about entries
\* below the root.
Calls(wk, method) ==
    Cardinality({k \in 1..Len(wk.log) : wk.log[k].method = method})

EntryCalls(wk, method) ==
    Cardinality({k \in 1..Len(wk.log) :
                    wk.log[k].method = method /\ wk.log[k].path # wk.dir})

DeleteErrors(r) ==
    Cardinality({k \in 1..Len(r.ErrorMessages) :
                    r.ErrorMessages[k][1] = "Delete error"})

\* C21: between two entries, the calls of LogDeletion made by a call of
\* cleanDirectory are as many as the entries it counted deleted, the calls
\* of LogSkipped as many as those it counted skipped, and the entries it
\* classified have each had one call of LogDeletion, LogError or
\* LogSkipped; in a dry run as in a real one.
C21_OneEventPerEntry ==
    \A w \in Workers :
        LET wk == workers[w]
        IN  wk.pc \in {"visit", "walk", "send"} =>
              /\ Calls(wk, "LogDeletion")
                    = wk.res.DeletedFiles + wk.res.DeletedDirs
              /\ Calls(wk, "LogSkipped")
                    = wk.res.SkippedFiles + wk.res.SkippedDirs
              /\ EntryCalls(wk, "LogDeletion") + EntryCalls(wk, "LogSkipped")
                    + DeleteErrors(wk.res)
                    = wk.res.TotalFiles + wk.res.TotalDirs

\* The entries of f below directory d, by kind.
Descendants(f, d, isDir) ==
    {q \in Subtree(f, d) : q # d /\ f[q].isDir = isDir}

\* C22: the run over one existing target, every directory of which can be
\* listed, has counted in totalFiles every file and in totalDirs every
\* directory that was below the target when the run started, each once,
\* and not the target itself.
C22_EachDescendantOnce ==
    (Done /\ Len(directories) = 1 /\ Exists(fs0, directories[1])
          /\ \A q \in Subtree(fs0, directories[1]) : ~fs0[q].unreadable) =>
        /\ result.TotalFiles
              = Cardinality(Descendants(fs0, directories[1], FALSE))
        /\ result.TotalDirs
              = Cardinality(Descendants(fs0, directories[1], TRUE))

\* The result of cleanDirectory when the walk failed at the root: one
\* failure of the given counter and the walk error message for the root.
RootFailure(dir, counter) ==
    [EmptyResult EXCEPT ![counter] = 1,
                        !.ErrorMessages = <<Message("Walk error", dir)>>]

\* r holds the walk error message for dir.
RootFailed(r, dir) ==
    \E k \in 1..Len(r.ErrorMessages) :
        r.ErrorMessages[k] = Message("Walk error", dir)

\* C23: when the walk fails at the root of a target that passed the
\* existence check, cleanDirectory returns a result with the walk error
\* message for the root and one failure (a failed directory for a root that
\* cannot be listed, a failed directory or file for one that vanished) and
\* nothing else;
\* and in a run over that target and b, the aggregate is b's own result
\* plus that failure.
C23_RootWalkError ==
    /\ \A w \in Workers :
          (workers[w].pc = "send" /\ RootFailed(workers[w].res, workers[w].dir))
              => /\ workers[w].res \in
                        {RootFailure(workers[w].dir, "FailedDirs"),
                         RootFailure(workers[w].dir, "FailedFiles")}
                 /\ fs0[workers[w].dir].unreadable
                        => workers[w].res.FailedDirs = 1
    /\ \A k \in 1..Len(resultChan) :
          LET dir == directories[resultChan[k].idx]
          IN  RootFailed(resultChan[k].res, dir)
                  => resultChan[k].res \in {RootFailure(dir, "FailedDirs"),
                                            RootFailure(dir, "FailedFiles")}
    /\ (Done /\ fs0[DirA].unreadable /\ Len(directories) = 2) =>
          result = [RootFailure(DirA, "FailedDirs") EXCEPT
                       !.TotalFiles = 1, !.TotalSize = 4,
                       !.DeletedFiles = 1, !.DeletedSize = 4]

\* C23 witness: the run over the unlistable a and over b has returned,
\* b's file counted deleted and a's failure recorded.
C23_Witness ==
    /\ Done
    /\ fs0[DirA].unreadable
    /\ directories = <<DirA, DirB>>
    /\ result.FailedDirs = 1
    /\ result.DeletedFiles = 1
    /\ RootFailed(result, DirA)

----------------------------------------------------------------------------
\* shouldDelete, duplicate targets, FormatSize.

\* The decision table: the first rule that matches decides.
DecisionTable(f, path) ==
    CASE goos # "windows" /\ Base(path)[1] = Dot -> FALSE
      [] goos = "windows"
            /\ Base(path) \in {DesktopIni, ThumbsDbLower, ThumbsDbUpper}
         -> FALSE
      [] OTHER -> f[path].isDir \/ f[path].probe = "ok"

\* C24: for every entry below a target and either host, before the run and
\* at each entry the walk is visiting, shouldDelete is the decision table; it
\* leaves the filesystem as it is, so a second call returns the same; and
\* os.OpenFile has been called only on files that rules 1 and 2 let pass,
\* never on a directory.
C24_DecisionTable ==
    /\ dpc = "start" =>
          \A p \in DOMAIN fs :
              Len(p) >= 2 =>
                  LET info == InfoOf(fs[p])
                  IN  /\ shouldDelete(fs, p, info) = DecisionTable(fs, p)
                      /\ Probed(fs, p, info) = fs
                      /\ shouldDelete(Probed(fs, p, info), p, info)
                            = shouldDelete(fs, p, info)
    /\ \A w \in Workers :
          (workers[w].pc = "visit" /\ workers[w].cur # workers[w].dir
              /\ Exists(fs, workers[w].cur)
              /\ fs[workers[w].cur].isDir = workers[w].info.isDir) =>
              LET p == workers[w].cur
                  info == workers[w].info
              IN  /\ shouldDelete(fs, p, info) = DecisionTable(fs, p)
                  /\ Probed(fs, p, info) = fs
    /\ \A w \in Workers : \A q \in workers[w].opened :
          /\ ~fs0[q].isDir
          /\ ~(goos # "windows" /\ Base(q)[1] = Dot)
          /\ ~(goos = "windows"
                 /\ Base(q) \in {DesktopIni, ThumbsDbLower, ThumbsDbUpper})

\* C24 witness: on Windows the walk has skipped the file Thumbs.db without
\* opening it.
C24_Witness ==
    /\ goos = "windows"
    /\ \E w \in Workers :
          /\ workers[w].pc = "send"
          /\ workers[w].res.SkippedFiles = 1
          /\ workers[w].opened = {}
          /\ Exists(fs0, Append(DirA, ThumbsDbUpper))
          /\ ~fs0[Append(DirA, ThumbsDbUpper)].isDir

\* C25: the run over a list that names one existing directory twice returns
\* in every counter twice what cleanDirectory returns for that directory
\* listed once.
C25_DuplicateDoubleCounted ==
    (Done /\ Len(directories) = 2 /\ directories[1] = directories[2]
          /\ Exists(fs0, directories[1]))
        => \A c \in Counters : result[c] = 2 * PartialOf(1)[c]

\* C26: FormatSize renders a count below 1024 as "<bytes> B", and a count
\* of k + 1 base-1024 digits, k in 1..6, as the count divided by 1024^k to
\* one decimal followed by the k-th of the letters K, M, G, T, P, E and "B",
\* the index into the letters never beyond 5; and 0, 1023, 1024, 1536 and
\* 1024 * 1024 as "0 B", "1023 B", "1.0 KB", "1.5 KB" and "1.0 MB".
C26_FormatSize ==
    formatted # "" =>
        /\ Len(bytes) = 1 => formatted = ToString(bytes[1]) \o " B"
        /\ \A k \in 1..(MaxDigits - 1) :
              Len(bytes) = k + 1 =>
                  /\ formatted =
                        SprintfUnit(Tenths(bytes, k),
                                    <<"K", "M", "G", "T", "P", "E">>[k])
                  /\ UnitLoop(DivUnit(bytes), 0) = k - 1
                  /\ UnitLoop(DivUnit(bytes), 0) <= 5
        /\ bytes = <<0>> => formatted = "0 B"
        /\ bytes = <<1023>> => formatted = "1023 B"
        /\ bytes = <<0, 1>> => formatted = "1.0 KB"
        /\ bytes = <<512, 1>> => formatted = "1.5 KB"
        /\ bytes = <<0, 0, 1>> => formatted = "1.0 MB"

\* C26 witness: 1024 * 1024 has been formatted as "1.0 MB".
C26_Witness ==
    /\ bytes = <<0, 0, 1>>
    /\ formatted = "1.0 MB"

----------------------------------------------------------------------------
\* Error messages, skipped directories, nested targets.

\* C27: in every result, per directory and aggregate, the error messages
\* are as many as failedFiles + failedDirs, and none of them is the
\* "Directory walk error" message.
C27_MessagePerFailure ==
    \A r \in AllResults :
        /\ Len(r.ErrorMessages) = r.FailedFiles + r.FailedDirs
        /\ \A k \in 1..Len(r.ErrorMessages) :
              r.ErrorMessages[k][1] \in {"Walk error", "Delete error"}

\* C27 witness: a run has returned with a walk error and a delete error.
C27_Witness ==
    /\ Done
    /\ \E k \in 1..Len(result.ErrorMessages) :
          result.ErrorMessages[k][1] = "Walk error"
    /\ \E k \in 1..Len(result.ErrorMessages) :
          result.ErrorMessages[k][1] = "Delete error"
    /\ Len(result.ErrorMessages) = result.FailedFiles + result.FailedDirs

\* The target a holds only the directory .d, which holds only the plain,
\* deletable file x, on a host other than Windows.
HiddenDirScenario ==
    /\ goos # "windows"
    /\ directories = <<DirA>>
    /\ Children(fs0, DirA) = {Append(DirA, <<Dot, "d">>)}
    /\ ~fs0[Append(DirA, <<Dot, "d">>)].unreadable
    /\ LET x == Append(Append(DirA, <<Dot, "d">>), <<"x">>)
       IN  /\ Children(fs0, Append(DirA, <<Dot, "d">>)) = {x}
           /\ fs0[x].probe = "ok"
           /\ ~fs0[x].undeletable

\* C28: a directory counted skipped is still walked: in the run over a
\* with a/.d/x the directory .d is counted skipped and stays, and the file
\* x in it is counted deleted, and removed unless the run is a dry run.
C28_SkippedDirStillWalked ==
    (Done /\ HiddenDirScenario) =>
        /\ result = [EmptyResult EXCEPT
                        !.TotalDirs = 1, !.SkippedDirs = 1,
                        !.TotalFiles = 1, !.TotalSize = 1,
                        !.DeletedFiles = 1, !.DeletedSize = 1]
        /\ Exists(fs, Append(DirA, <<Dot, "d">>))
        /\ dryRun => fs = fs0
        /\ ~dryRun => Removed = {Append(Append(DirA, <<Dot, "d">>), <<"x">>)}

\* C28 witness: such a real run has returned with x removed from the
\* skipped directory.
C28_Witness ==
    /\ Done
    /\ ~dryRun
    /\ HiddenDirScenario
    /\ result.SkippedDirs = 1
    /\ result.DeletedFiles = 1
    /\ Removed # {}

\* C29: a real run over a target and a directory inside it returns the
\* same counters under every interleaving: those of the interleaving that
\* cleans the targets one after the other in list order.
C29_NestedDeterministic ==
    (Done /\ ~dryRun /\ Len(directories) = 2
          /\ directories[1] # directories[2]
          /\ (IsPrefix(directories[1], directories[2])
                \/ IsPrefix(directories[2], directories[1])))
        => Numeric(result) = SeqTotals(FALSE, fs0, directories)

====
